---- MODULE Spec2Model ----
(***************************************************************************)
(* Model of src/app.py: the PTA / CFR simulator.                           *)
(*                                                                         *)
(* One session of the Streamlit script is modelled: the regimen list kept  *)
(* in st.session_state, the "Add Regimen" and "Run Simulation" buttons,    *)
(* and a run of monte_carlo_simulation stepped one patient draw at a time, *)
(* followed by calculate_cfr.                                              *)
(*                                                                         *)
(* Reals are exact rationals [n, d] with d > 0.  The quantities that meet  *)
(* inside math.log are drawn from powers of two, so that                   *)
(*   ln(x / y) = (Log2(x) - Log2(y)) * ln 2                                *)
(* is exact up to the rational value used for ln 2; floating-point         *)
(* rounding is not modelled.                                               *)
(***************************************************************************)
EXTENDS Integers, Sequences, FiniteSets, TLC

\* ------------------------------------------------------------------ bounds
\* Largest "Number of Simulated Patients" entered in the sidebar.
MaxPatients == 2
\* Longest regimen list the session is allowed to grow to.
MaxRegimens == 2

\* ------------------------------------------------------- rational numbers
Q(n, d) == IF d < 0 THEN [n |-> -n, d |-> -d] ELSE [n |-> n, d |-> d]
QInt(i) == [n |-> i, d |-> 1]
QAdd(a, b) == [n |-> a.n * b.d + b.n * a.d, d |-> a.d * b.d]
QMul(a, b) == [n |-> a.n * b.n, d |-> a.d * b.d]
QLe(a, b) == a.n * b.d <= b.n * a.d
QEq(a, b) == a.n * b.d = b.n * a.d
QMax(a, b) == IF QLe(a, b) THEN b ELSE a

Abs(x) == IF x < 0 THEN -x ELSE x
Range(s) == {s[i] : i \in 1..Len(s)}

\* ------------------------------------------------------------- the inputs
None == <<>>

\* (dose_input, interval_input) pairs the user clicks "Add Regimen" with.
\* number_input for the interval has min_value=1, the dose is unconstrained.
RegimenInputs == {<<4, 2>>, <<8, 2>>, <<4, 1>>, <<0, 1>>, <<-4, 2>>, <<-8, 2>>}

\* Sidebar values of the three population parameters, (mean, std) each.
\* number_input sets no minimum, so zero and negative means can be entered.
Param(fu, vd, clt) == [fu |-> fu, vd |-> vd, clt |-> clt]
ParamInputs ==
    { Param(<<1, 0>>, <<1, 0>>, <<1, 0>>),
      Param(<<1, 0>>, <<1, 0>>, <<2, 0>>),
      Param(<<1, 0>>, <<1, 0>>, <<1, 1>>),
      Param(<<1, 1>>, <<1, 0>>, <<1, 0>>),
      Param(<<1, 0>>, <<1, 1>>, <<1, 0>>),
      Param(<<-1, 0>>, <<1, 0>>, <<1, 0>>),
      Param(<<1, 0>>, <<0, 0>>, <<1, 0>>),
      Param(<<1, 0>>, <<1, 0>>, <<0, 1>>) }

\* mic_list as parsed from the "MIC Values" text input: any floats, in the
\* order typed, repeats included.
MicInputs ==
    { <<1>>, <<2>>, <<1, 2>>, <<2, 1>>, <<2, 2>>, <<0>>, <<1, -1>>, <<-2, -1>> }

\* "Number of Simulated Patients": number_input without a minimum.
NumPatientsInputs == (-1)..MaxPatients

\* "PK/PD Target (%fT > MIC)": the default 55, and 0.
TargetDefault == 55
TargetInputs == {0, TargetDefault}

\* mic_distribution as parsed from the "MIC Distribution" text area.
Whole == Q(1, 1)
Half == Q(1, 2)
Zero == Q(0, 1)
DistributionInputs ==
    { (1 :> Whole) @@ (2 :> Zero),
      (1 :> Half) @@ (2 :> Half),
      (2 :> Whole),
      (2 :> Half) @@ (4 :> Half),
      (1 :> Whole) @@ (2 :> Whole),
      (1 :> Q(3, 2)) @@ (2 :> Q(-1, 2)) }

\* Values np.random.lognormal returns when sigma > 0, on the model's grid:
\* positive floats, and 0.0 when exp() underflows.
SampleGrid == {0, 1, 2}

\* -------------------------------------------------------- pure functions
\* math.log of a power of two, in units of ln 2.
RECURSIVE Log2(_)
Log2(x) == IF x <= 1 THEN 0 ELSE 1 + Log2(x \div 2)

\* ln 2 as used for math.log.
Ln2 == Q(693, 1000)

Invalid == [tag |-> "str", n |-> 0, d |-> 1]
Num(q) == [tag |-> "num", n |-> q.n, d |-> q.d]

\* term1 = math.log((dose * fu) / (vd * mic)), in units of ln 2; "zerodiv"
\* and "domain" are the ZeroDivisionError and ValueError of that line.
term1_mic_in_numerator(dose, fu, vd, mic) ==
    IF vd = 0 THEN [exc |-> "zerodiv", k |-> 0]
    ELSE IF (dose * fu * mic) * vd <= 0 THEN [exc |-> "domain", k |-> 0]
    ELSE [exc |-> "none", k |-> Log2(Abs(dose * fu * mic)) - Log2(Abs(vd))]

term1(dose, fu, vd, mic) ==
    IF vd * mic = 0 THEN [exc |-> "zerodiv", k |-> 0]
    ELSE IF (dose * fu) * (vd * mic) <= 0 THEN [exc |-> "domain", k |-> 0]
    ELSE [exc |-> "none", k |-> Log2(Abs(dose * fu)) - Log2(Abs(vd * mic))]

calculate_ft_mic(dose, fu, vd, mic, clt, di) ==
    LET t1 == term1(dose, fu, vd, mic)
    IN  IF t1.exc # "none" THEN Invalid
        ELSE IF clt = 0 THEN Invalid
        ELSE IF di = 0 THEN Invalid
        ELSE LET ft_mic == QMul(QMul(QMul(QInt(t1.k), Ln2), Q(vd, clt)), Q(100, di))
             IN  Num(QMax(ft_mic, Zero))

\* Integer square root of a perfect square.
Sqrt(x) == CHOOSE r \in 0..x : r * r = x

\* (mu, sigma) of the underlying normal, kept as exp(mu) and whether sigma
\* is 0.  With std = 0, exp(mu) = mean^2 / sqrt(mean^2) and sigma = 0; with
\* std > 0 both are irrational and only sigma > 0 is kept.  mean = 0 raises
\* ZeroDivisionError (std = 0) or ValueError (std > 0).
calculate_lognormal_params(mean, std) ==
    LET variance == std * std
    IN  IF mean = 0
        THEN [exc |-> IF variance = 0 THEN "ZeroDivisionError" ELSE "ValueError",
              sigma_zero |-> FALSE, exp_mu |-> 0]
        ELSE IF variance = 0
        THEN [exc |-> "none", sigma_zero |-> TRUE,
              exp_mu |-> (mean * mean) \div Sqrt(variance + mean * mean)]
        ELSE [exc |-> "none", sigma_zero |-> FALSE, exp_mu |-> 0]

\* max(np.random.lognormal(mean=mu, sigma=sigma), 0): the values one draw
\* can take.
Sample(p) ==
    LET drawn_values == IF p.sigma_zero THEN {p.exp_mu} ELSE SampleGrid
    IN  {IF v < 0 THEN 0 ELSE v : v \in drawn_values}

\* ft_mic >= target, for a numeric ft_mic (line 43)
meets_target_flipped(ft_mic, target) == QLe(ft_mic, QInt(target))
meets_target(ft_mic, target) == QLe(QInt(target), ft_mic)

\* pta = (success_count / num_patients) * 100
pta_of(count, num_patients) == QMul(Q(count, num_patients), QInt(100))

\* mic_distribution.get(mic, 0)
get_default_one(mic_distribution, mic) ==
    IF mic \in DOMAIN mic_distribution THEN mic_distribution[mic] ELSE Whole

get(mic_distribution, mic) ==
    IF mic \in DOMAIN mic_distribution THEN mic_distribution[mic] ELSE Zero

RECURSIVE cfr_combinations_overwrite(_, _, _)
cfr_combinations_overwrite(cfr, combinations, weight) ==
    IF combinations = <<>> THEN cfr
    ELSE LET c == Head(combinations)
             key == <<c[1], c[2]>>
             cfr0 == IF key \in DOMAIN cfr THEN cfr ELSE cfr @@ (key :> Zero)
             cfr1 == [cfr0 EXCEPT ![key] = QMul(c[3], weight)]
         IN  cfr_combinations_overwrite(cfr1, Tail(combinations), weight)

\* The inner loop of calculate_cfr over one threshold's combinations.
RECURSIVE cfr_combinations(_, _, _)
cfr_combinations(cfr, combinations, weight) ==
    IF combinations = <<>> THEN cfr
    ELSE LET c == Head(combinations)
             key == <<c[1], c[2]>>
             cfr0 == IF key \in DOMAIN cfr THEN cfr ELSE cfr @@ (key :> Zero)
             cfr1 == [cfr0 EXCEPT ![key] = QAdd(@, QMul(c[3], weight))]
         IN  cfr_combinations(cfr1, Tail(combinations), weight)

\* The outer loop of calculate_cfr over results.items().  Addition is exact,
\* so the order in which the thresholds are visited does not matter.
RECURSIVE cfr_items(_, _, _, _)
cfr_items(cfr, res, keys, mic_distribution) ==
    IF keys = {} THEN cfr
    ELSE LET mic == CHOOSE m \in keys : TRUE
         IN  cfr_items(cfr_combinations(cfr, res[mic], get(mic_distribution, mic)),
                       res, keys \ {mic}, mic_distribution)

calculate_cfr(res, mic_distribution) ==
    cfr_items(<<>>, res, DOMAIN res, mic_distribution)

\* ------------------------------------------------------------------ state
VARIABLES
    dose_intervals,   \* st.session_state.dose_intervals
    clicked,          \* regimen of the "Add Regimen" click of this rerun, or None
    pc,               \* "idle", "sim" (inside monte_carlo_simulation), "cfr"
                      \* (it returned), "done" (results shown), "error" (raised)
    inp,              \* the sidebar values the run was started with
    lognormal,        \* the three converted parameters (lines 29-31)
    mi, ri,           \* position of the loops over mics and dose_intervals
    patient,          \* iterations done of the loop over range(num_patients)
    success_count,
    results,
    mic_distribution,
    cfr_results,
    err,              \* the exception that ended the run
    drawn,            \* per (mi, ri): patients drawn for that pair
    met,              \* per (mi, ri): draws whose exposure was >= target
    failed,           \* per (mi, ri): draws for which calculate_ft_mic failed
    sampled           \* the (fu, vd, clt) triples drawn in this run

run_vars == <<inp, lognormal, mi, ri, patient, success_count, results,
              mic_distribution, cfr_results, err, drawn, met, failed, sampled>>

\* success_count = 0 at the head of each regimen's iteration (line 37)
fresh_success_count_carried == success_count
fresh_success_count == 0

vars == <<dose_intervals, clicked, pc, run_vars>>

Init ==
    /\ dose_intervals = <<>>
    /\ clicked = None
    /\ pc = "idle"
    /\ inp = None
    /\ lognormal = None
    /\ mi = 0
    /\ ri = 0
    /\ patient = 0
    /\ success_count = 0
    /\ results = <<>>
    /\ mic_distribution = <<>>
    /\ cfr_results = <<>>
    /\ err = "none"
    /\ drawn = <<>>
    /\ met = <<>>
    /\ failed = <<>>
    /\ sampled = {}

\* ---------------------------------------------------------------- actions
\* main() is entered again after a run has ended (any interaction with the
\* page reruns the script): the locals of the earlier execution, results
\* and cfr_results among them, are gone; st.session_state is kept.
Rerun ==
    /\ pc \in {"done", "error"}
    /\ pc' = "idle"
    /\ clicked' = None
    /\ inp' = None
    /\ lognormal' = None
    /\ mi' = 0
    /\ ri' = 0
    /\ patient' = 0
    /\ success_count' = 0
    /\ results' = <<>>
    /\ mic_distribution' = <<>>
    /\ cfr_results' = <<>>
    /\ err' = "none"
    /\ drawn' = <<>>
    /\ met' = <<>>
    /\ failed' = <<>>
    /\ sampled' = {}
    /\ UNCHANGED dose_intervals

AddRegimen_NoDedup(dose_input, interval_input) ==
    LET regimen == <<dose_input, interval_input>>
    IN  /\ pc = "idle"
        /\ Len(dose_intervals) < MaxRegimens
        /\ dose_intervals' = Append(dose_intervals, regimen)
        /\ clicked' = regimen
        /\ UNCHANGED <<pc, run_vars>>

AddRegimen_ByDose(dose_input, interval_input) ==
    LET regimen == <<dose_input, interval_input>>
        doses == {r[1] : r \in Range(dose_intervals)}
    IN  /\ pc = "idle"
        /\ dose_input \in doses \/ Len(dose_intervals) < MaxRegimens
        /\ dose_intervals' = IF dose_input \notin doses
                             THEN Append(dose_intervals, regimen)
                             ELSE dose_intervals
        /\ clicked' = regimen
        /\ UNCHANGED <<pc, run_vars>>

\* An execution of the script with "Add Regimen" pressed (lines 120-123);
\* with "Run Simulation" not pressed it ends at line 142.
AddRegimen(dose_input, interval_input) ==
    LET regimen == <<dose_input, interval_input>>
    IN  /\ pc = "idle"
        /\ regimen \in Range(dose_intervals) \/ Len(dose_intervals) < MaxRegimens
        /\ dose_intervals' = IF regimen \notin Range(dose_intervals)
                             THEN Append(dose_intervals, regimen)
                             ELSE dose_intervals
        /\ clicked' = regimen
        /\ UNCHANGED <<pc, run_vars>>

Pairs(mics) == (1..Len(mics)) \X (1..Len(dose_intervals))

\* An execution with "Run Simulation" pressed and a non-empty regimen list
\* (lines 135-147): monte_carlo_simulation is entered, converts the three
\* parameters and reaches the first patient of the first pair.
RunSimulation ==
    /\ pc = "idle"
    /\ dose_intervals # <<>>
    /\ \E p \in ParamInputs, mics \in MicInputs,
          num_patients \in NumPatientsInputs, target \in TargetInputs :
        LET fu == calculate_lognormal_params(p.fu[1], p.fu[2])
            vd == calculate_lognormal_params(p.vd[1], p.vd[2])
            clt == calculate_lognormal_params(p.clt[1], p.clt[2])
            raised == IF fu.exc # "none" THEN fu.exc
                      ELSE IF vd.exc # "none" THEN vd.exc
                      ELSE clt.exc
        IN  /\ inp' = [params |-> p, mics |-> mics,
                       num_patients |-> num_patients, target |-> target]
            /\ clicked' = None
            /\ mic_distribution' = <<>>
            /\ cfr_results' = <<>>
            /\ drawn' = [pr \in Pairs(mics) |-> 0]
            /\ met' = [pr \in Pairs(mics) |-> 0]
            /\ failed' = [pr \in Pairs(mics) |-> 0]
            /\ sampled' = {}
            /\ patient' = 0
            /\ success_count' = fresh_success_count
            /\ IF raised # "none"
               THEN /\ pc' = "error"
                    /\ err' = raised
                    /\ lognormal' = None
                    /\ mi' = 0
                    /\ ri' = 0
                    /\ results' = <<>>
               ELSE /\ pc' = "sim"
                    /\ err' = "none"
                    /\ lognormal' = [fu |-> fu, vd |-> vd, clt |-> clt]
                    /\ mi' = 1
                    /\ ri' = 1
                    /\ results' = (mics[1] :> <<>>)
    /\ UNCHANGED dose_intervals

\* One iteration of the loop over range(num_patients) (lines 38-44).  A
\* string returned by calculate_ft_mic makes `ft_mic >= target` raise
\* TypeError, which nothing catches.
PatientDraw ==
    /\ pc = "sim"
    /\ patient < inp.num_patients
    /\ \E fu \in Sample(lognormal.fu), vd \in Sample(lognormal.vd),
          clt \in Sample(lognormal.clt) :
        LET dose == dose_intervals[ri][1]
            di == dose_intervals[ri][2]
            mic == inp.mics[mi]
            ft_mic == calculate_ft_mic(dose, fu, vd, mic, clt, di)
            pair == <<mi, ri>>
        IN  /\ drawn' = [drawn EXCEPT ![pair] = @ + 1]
            /\ sampled' = sampled \cup {<<fu, vd, clt>>}
            /\ IF ft_mic.tag = "str"
               THEN /\ pc' = "error"
                    /\ err' = "TypeError"
                    /\ failed' = [failed EXCEPT ![pair] = @ + 1]
                    /\ UNCHANGED <<patient, success_count, met>>
               ELSE /\ patient' = patient + 1
                    /\ IF meets_target(ft_mic, inp.target)
                       THEN /\ success_count' = success_count + 1
                            /\ met' = [met EXCEPT ![pair] = @ + 1]
                       ELSE UNCHANGED <<success_count, met>>
                    /\ UNCHANGED <<pc, err, failed>>
    /\ UNCHANGED <<dose_intervals, clicked, inp, lognormal, mi, ri, results,
                   mic_distribution, cfr_results>>

\* The end of one (mic, regimen) pair (lines 45-46) and the step to the next
\* pair (lines 34-37), or the return of results (line 47).
EndPair ==
    /\ pc = "sim"
    /\ patient >= inp.num_patients
    /\ LET dose == dose_intervals[ri][1]
           di == dose_intervals[ri][2]
           mic == inp.mics[mi]
       IN  IF inp.num_patients = 0
           THEN /\ pc' = "error"
                /\ err' = "ZeroDivisionError"
                /\ UNCHANGED <<mi, ri, patient, success_count, results>>
           ELSE LET pta == pta_of(success_count, inp.num_patients)
                    appended == [results EXCEPT ![mic] = Append(@, <<dose, di, pta>>)]
                IN  /\ err' = "none"
                    /\ patient' = 0
                    /\ success_count' = fresh_success_count
                    /\ IF ri < Len(dose_intervals)
                       THEN /\ ri' = ri + 1
                            /\ results' = appended
                            /\ UNCHANGED <<mi, pc>>
                       ELSE IF mi < Len(inp.mics)
                       THEN /\ mi' = mi + 1
                            /\ ri' = 1
                            /\ results' = [m \in DOMAIN appended \cup {inp.mics[mi + 1]} |->
                                             IF m = inp.mics[mi + 1] THEN <<>> ELSE appended[m]]
                            /\ UNCHANGED pc
                       ELSE /\ pc' = "cfr"
                            /\ results' = appended
                            /\ UNCHANGED <<mi, ri>>
    /\ UNCHANGED <<dose_intervals, clicked, inp, lognormal, mic_distribution,
                   cfr_results, drawn, met, failed, sampled>>

\* calculate_cfr(results, mic_distribution) (line 148) with the distribution
\* parsed at lines 98-106, which nothing reads before this call.
CalculateCfr ==
    /\ pc = "cfr"
    /\ \E dist \in DistributionInputs :
        /\ mic_distribution' = dist
        /\ cfr_results' = calculate_cfr(results, dist)
    /\ pc' = "done"
    /\ UNCHANGED <<dose_intervals, clicked, inp, lognormal, mi, ri, patient,
                   success_count, results, err, drawn, met, failed, sampled>>

Next ==
    \/ Rerun
    \/ \E r \in RegimenInputs : AddRegimen(r[1], r[2])
    \/ RunSimulation
    \/ PatientDraw
    \/ EndPair
    \/ CalculateCfr

Spec == Init /\ [][Next]_vars

\* ------------------------------------------------------------ properties
\* monte_carlo_simulation has returned its results.
Returned == pc \in {"cfr", "done"}

\* The iteration of the loop over mics that wrote results[m]: the last one
\* with that value.
LastIndex(m) ==
    CHOOSE i \in 1..Len(inp.mics) :
        /\ inp.mics[i] = m
        /\ \A j \in (i + 1)..Len(inp.mics) : inp.mics[j] # m

Percentage(q) == QLe(Zero, q) /\ QLe(q, QInt(100))

\* The draws of pair pr = (mi, ri) are all made, and each of them failed.
EveryDrawFailed(pr) ==
    /\ inp.num_patients >= 1
    /\ failed[pr] = inp.num_patients

\* results holds an attainment probability of 0 for pair pr.
ReportsZero(pr) ==
    LET mic == inp.mics[pr[1]]
    IN  /\ mic \in DOMAIN results
        /\ pr[2] <= Len(results[mic])
        /\ QEq(results[mic][pr[2]][3], Zero)

\* C1: every attainment probability the run holds is in [0,100], and a pair
\* whose every draw failed in the exposure model is reported with 0.
C1_InRangeAndZeroWhenAllFail ==
    /\ \A m \in DOMAIN results : \A r \in 1..Len(results[m]) :
           Percentage(results[m][r][3])
    /\ \A pr \in DOMAIN failed : EveryDrawFailed(pr) => ReportsZero(pr)

\* C2: a draw for which calculate_ft_mic fails is counted as not meeting the
\* target and the run goes on: no run with a failed draw ends in an error.
C2_FailedDrawNotPropagated ==
    \A pr \in DOMAIN failed : failed[pr] > 0 => pc # "error"

\* The inputs section 7 of the specification calls InvalidParameter.
InvalidParameter ==
    \/ inp.params.fu[1] <= 0
    \/ inp.params.vd[1] <= 0
    \/ inp.params.clt[1] <= 0
    \/ \E r \in 1..Len(dose_intervals) :
           dose_intervals[r][1] <= 0 \/ dose_intervals[r][2] <= 0
    \/ \E i \in 1..Len(inp.mics) : inp.mics[i] <= 0
    \/ inp.num_patients < 1

\* C3: a run with an invalid parameter is rejected with an error before any
\* sampling: no patient is drawn and no result is produced.
C3_InvalidRunRejected ==
    (inp # None /\ InvalidParameter) =>
        /\ pc = "error"
        /\ \A pr \in DOMAIN drawn : drawn[pr] = 0
        /\ results = <<>>

\* C4: for N >= 1 the returned results hold, for every threshold of mics, one
\* (dose, interval, pta) entry per regimen in input order, with
\* pta = 100 * successes / N over that pair's own N draws.
C4_OneEntryPerPair ==
    (Returned /\ inp.num_patients >= 1) =>
        /\ DOMAIN results = Range(inp.mics)
        /\ \A m \in DOMAIN results :
            /\ Len(results[m]) = Len(dose_intervals)
            /\ \A r \in 1..Len(dose_intervals) :
                LET pr == <<LastIndex(m), r>>
                IN  /\ results[m][r][1] = dose_intervals[r][1]
                    /\ results[m][r][2] = dose_intervals[r][2]
                    /\ drawn[pr] = inp.num_patients
                    /\ QEq(results[m][r][3], Q(100 * met[pr], inp.num_patients))

C4_Witness ==
    /\ Returned
    /\ inp.num_patients = MaxPatients
    /\ Len(inp.mics) = 2
    /\ Len(dose_intervals) = 2
    /\ \E pr \in DOMAIN met : met[pr] = 1
    /\ \E pr \in DOMAIN met : met[pr] = 0
    /\ \E pr \in DOMAIN met : met[pr] = MaxPatients

\* The regimens and the attainment probabilities held in results.
ResultRegimens ==
    {<<e[1], e[2]>> : e \in UNION {Range(results[m]) : m \in DOMAIN results}}
PtaAt(m, reg) ==
    LET e == CHOOSE e \in Range(results[m]) : <<e[1], e[2]>> = reg IN e[3]
Weight(m) ==
    IF m \in DOMAIN mic_distribution THEN mic_distribution[m] ELSE Zero
RECURSIVE WeightedSum(_, _)
WeightedSum(reg, thresholds) ==
    IF thresholds = {} THEN Zero
    ELSE LET m == CHOOSE m \in thresholds : TRUE
         IN  QAdd(QMul(PtaAt(m, reg), Weight(m)),
                  WeightedSum(reg, thresholds \ {m}))

\* C5: calculate_cfr returns one score per regimen of the results, the
\* unnormalized sum over the results' thresholds of pta * weight, a threshold
\* missing from the distribution weighing 0 and a threshold only in the
\* distribution contributing nothing.
C5_UnnormalizedWeightedSum ==
    pc = "done" =>
        /\ DOMAIN cfr_results = ResultRegimens
        /\ \A reg \in ResultRegimens :
               QEq(cfr_results[reg], WeightedSum(reg, DOMAIN results))

C5_Witness ==
    /\ pc = "done"
    /\ DOMAIN results \ DOMAIN mic_distribution # {}
    /\ DOMAIN mic_distribution \ DOMAIN results # {}
    /\ Len(dose_intervals) = 2
    /\ \E m \in DOMAIN results \ DOMAIN mic_distribution :
           \E reg \in ResultRegimens : ~QEq(PtaAt(m, reg), Zero)
    /\ \E reg \in ResultRegimens :
           ~QEq(cfr_results[reg], Zero) /\ ~QEq(cfr_results[reg], QInt(100))

\* The distribution gives weight 1 to threshold m and 0 to every other one.
Indicator(m) ==
    /\ m \in DOMAIN mic_distribution
    /\ QEq(mic_distribution[m], Whole)
    /\ \A u \in DOMAIN mic_distribution \ {m} : QEq(mic_distribution[u], Zero)

\* C6: with weight 1 on exactly one threshold and 0 on all others, every
\* regimen's score is its attainment probability at that threshold.
C6_AggregationIdentity ==
    pc = "done" =>
        \A m \in DOMAIN results : Indicator(m) =>
            \A reg \in ResultRegimens : QEq(cfr_results[reg], PtaAt(m, reg))

C6_Witness ==
    /\ pc = "done"
    /\ \E m \in DOMAIN results :
        /\ Indicator(m)
        /\ \E u \in DOMAIN results \ {m} : \E reg \in ResultRegimens :
            /\ ~QEq(PtaAt(u, reg), Zero)
            /\ ~QEq(PtaAt(u, reg), PtaAt(m, reg))

\* Within the results, no regimen has a higher attainment probability at a
\* larger threshold than at a smaller one.  Thresholds are positive reals;
\* with a negative dose and negative thresholds, which the code accepts, the
\* order is the reverse.
ThresholdMonotone ==
    \A m1 \in DOMAIN results, m2 \in DOMAIN results : (0 < m1 /\ m1 < m2) =>
        \A reg \in ResultRegimens : QLe(PtaAt(m2, reg), PtaAt(m1, reg))

\* Every patient drawn in the run had the same fu, vd and clt.
SamePatientDraws == Cardinality(sampled) <= 1

\* C7 as stated: within one result, the attainment probability at a larger
\* (positive) threshold is never greater than at a smaller threshold.
C7_ThresholdMonotoneAnyDraws == Returned => ThresholdMonotone

\* C7 as amended: the same, for a run in which every patient drawn had the
\* same sampled parameters (as when all three standard deviations are 0).
C7_ThresholdMonotoneSameDraws ==
    (Returned /\ SamePatientDraws) => ThresholdMonotone

C7_Witness ==
    /\ Returned
    /\ SamePatientDraws
    /\ inp.num_patients >= 1
    /\ \E m1 \in DOMAIN results, m2 \in DOMAIN results :
        /\ 0 < m1
        /\ m1 < m2
        /\ \E reg \in ResultRegimens : ~QLe(PtaAt(m1, reg), PtaAt(m2, reg))

\* Within the results, of two regimens with the same interval the one with
\* the larger dose has no lower attainment probability, at every threshold.
\* Doses are positive reals; with negative doses and a negative threshold,
\* which the code accepts, the order is the reverse.
DoseMonotone ==
    \A m \in DOMAIN results : \A r1 \in ResultRegimens, r2 \in ResultRegimens :
        (r1[2] = r2[2] /\ 0 < r1[1] /\ r1[1] < r2[1]) =>
            QLe(PtaAt(m, r1), PtaAt(m, r2))

\* C8 as stated: with everything else the same, the regimen with the larger
\* (positive) dose is reported with an attainment probability at least as
\* high.
C8_DoseMonotoneAnyDraws == Returned => DoseMonotone

\* C8 as amended: the same, for a run in which every patient drawn had the
\* same sampled parameters (as when all three standard deviations are 0).
C8_DoseMonotoneSameDraws == (Returned /\ SamePatientDraws) => DoseMonotone

C8_Witness ==
    /\ Returned
    /\ SamePatientDraws
    /\ inp.num_patients >= 1
    /\ \E m \in DOMAIN results : \E r1 \in ResultRegimens, r2 \in ResultRegimens :
        /\ r1[2] = r2[2]
        /\ 0 < r1[1]
        /\ r1[1] < r2[1]
        /\ ~QLe(PtaAt(m, r2), PtaAt(m, r1))

NoDuplicates(seq) == \A i \in 1..Len(seq), j \in 1..Len(seq) : seq[i] = seq[j] => i = j

\* C9: the regimen list holds each (dose, interval) pair at most once, in
\* order of first addition: a click on "Add Regimen" with a pair already
\* present leaves the list as it is, a click with a new pair appends it, and
\* nothing else changes the list.
C9_RegimensDeduplicated ==
    [][ /\ NoDuplicates(dose_intervals')
        /\ clicked' = None => dose_intervals' = dose_intervals
        /\ clicked' # None =>
               dose_intervals' = IF clicked' \in Range(dose_intervals)
                                 THEN dose_intervals
                                 ELSE Append(dose_intervals, clicked') ]_vars

C9_Witness ==
    /\ Len(dose_intervals) = 2
    /\ clicked = dose_intervals[1]
    /\ dose_intervals[1][1] = dose_intervals[2][1]

\* The weights are non-negative and sum to 1.
RECURSIVE SumWeights(_)
SumWeights(keys) ==
    IF keys = {} THEN Zero
    ELSE LET m == CHOOSE m \in keys : TRUE
         IN  QAdd(mic_distribution[m], SumWeights(keys \ {m}))
ProbabilityWeights ==
    /\ \A m \in DOMAIN mic_distribution : QLe(Zero, mic_distribution[m])
    /\ QEq(SumWeights(DOMAIN mic_distribution), Whole)

====
